---- MODULE Spec2Model ----
(***************************************************************************)
(* Model of meteo.py: a Streamlit script that discovers the schema of an   *)
(* Opendatasoft dataset, guesses the technical column names, queries the   *)
(* records endpoint for one station and one UTC range, and normalizes the  *)
(* returned rows (normalize_synop_df).                                     *)
(*                                                                         *)
(* Three specifications share the variables:                               *)
(*   Spec      the interactive session (script reruns, cache, requests)    *)
(*   SpecNorm  normalize_synop_df applied to bounded raw frames, twice     *)
(*   SpecDaily the daily reducer of the specification document             *)
(*                                                                         *)
(* Units: instants are whole hours since an epoch; temperatures, rain and  *)
(* wind are fixed-point numbers in hundredths (280.00 is 28000).           *)
(***************************************************************************)
EXTENDS Integers, Sequences, FiniteSets, TLC

VARIABLES
    \* ---- interactive session (Spec)
    pc,          \* "idle" | "schema_wait" | "records_call" | "records_wait"
    now,         \* wall clock, seconds
    cache,       \* the st.cache_data entry of get_schema
    run_query,   \* the load button was clicked for this run
    station,     \* chosen_station_id
    start_dt,    \* start of the requested range (instant)
    end_dt,      \* end of the requested range (instant)
    schema_df,   \* the field names get_schema returned to this run
    fromCache,   \* this run's get_schema was served by the cache
    cols_map,    \* guess_columns(schema_df)
    reqCount,    \* requests sent to the records endpoint by this run
    params,      \* query parameters of the records request
    raw_df,      \* fetch_data_for_station(...)
    synop_df,    \* normalize_synop_df(raw_df)
    reports,     \* the st.error messages of this run
    ending,      \* how this run ended
    recordsResp, \* what answered this run's records request
    \* ---- normalizer harness (SpecNorm)
    nphase,      \* "input" | "normalized" | "renormalized"
    df,          \* the raw frame given to normalize_synop_df
    indexer,     \* the argsort indexer sort_values computed in the first pass
    out1,        \* normalize_synop_df(df)
    out2,        \* normalize_synop_df(out1 fed back under the raw names)
    \* ---- daily reducer harness (SpecDaily)
    dphase,       \* "input" | "reduced"
    observations, \* the Observations given to reduceToDaily
    targetHour,   \* the target hour given to reduceToDaily
    daily,        \* the DailyObservations it returned
    derror        \* the error it failed with, "none" when it returned

svars == <<pc, now, cache, run_query, station, start_dt, end_dt, schema_df,
           fromCache, cols_map, reqCount, params, raw_df, synop_df, reports,
           ending, recordsResp>>

nvars == <<nphase, df, indexer, out1, out2>>

dvars == <<dphase, observations, targetHour, daily, derror>>

vars == <<svars, nvars, dvars>>

----------------------------------------------------------------------------
(* Bounds *)

MaxRows == 2      \* rows of a raw frame given to the normalizer
MaxInstant == 2   \* instants run from 0 to MaxInstant
MaxTicks == 3     \* clock ticks of one session
MaxObs == 3       \* observations given to the daily reducer
MaxDailyInstant == 31  \* last instant an observation of the reducer may have
TickSeconds == 1800  \* seconds per clock tick
DstStart == 2     \* first instant at which Europe/Paris is on summer time

----------------------------------------------------------------------------
(* Cells of a frame *)

NA == [k |-> "na"]                          \* None / NaN / NaT
Num(v) == [k |-> "num", v |-> v]            \* a JSON number, hundredths
NumStr(v) == [k |-> "numstr", v |-> v]      \* a string that spells a number
Bad == [k |-> "bad"]                        \* a string that spells nothing
Iso(h, off) == [k |-> "iso", h |-> h, off |-> off]  \* "..T<h>:00:00+<off>:00"
Ts(t) == [k |-> "ts", t |-> t]              \* tz-aware Timestamp, UTC
Local(t, off) == [k |-> "local", t |-> t, off |-> off] \* Timestamp in Paris
Txt(s) == [k |-> "txt", s |-> s]            \* any other string

IsNA(c) == c.k = "na"

RawCols == {"date_utc", "station_id", "station_name",
            "temperature_raw", "rain_raw", "wind_raw"}

OutCols == {"date_utc", "date_local", "station_id", "station_name",
            "temperature_C", "pluie_brute", "vent_brut"}

----------------------------------------------------------------------------
(* pandas conversions used by normalize_synop_df *)

\* pd.to_datetime(x, errors="coerce", utc=True) on one cell: an ISO-8601
\* string with an explicit offset becomes the UTC instant it denotes, a
\* Timestamp stays the instant it is, anything else is coerced to NaT.
to_datetime(c) ==
    CASE c.k = "iso" -> Ts(c.h - c.off)
      [] c.k = "ts" -> c
      [] OTHER -> NA

\* Offset of Europe/Paris from UTC at instant t (winter +1, summer +2).
ParisOffset(t) == IF t >= DstStart THEN 2 ELSE 1

\* Series.dt.tz_convert("Europe/Paris") on one cell.
tz_convert(c) == IF c.k = "ts" THEN Local(c.t, ParisOffset(c.t)) ELSE NA

\* pd.to_numeric(x, errors="coerce") on one cell.
to_numeric(c) ==
    CASE c.k = "num" -> c
      [] c.k = "numstr" -> Num(c.v)
      [] OTHER -> NA

KELVIN_OFFSET == 27315            \* 273.15
KELVIN_THRESHOLD == 200 * 100     \* 200

\* Plausible slip: the comparison of the heuristic is non-strict.
kelvinNonStrict(t_raw) ==
    IF t_raw.k = "num" /\ t_raw.v <= KELVIN_THRESHOLD THEN t_raw
    ELSE IF t_raw.k = "num" THEN Num(t_raw.v - KELVIN_OFFSET) ELSE NA

\* Plausible slip: the offset is subtracted whatever the value.
kelvinAlways(t_raw) ==
    IF t_raw.k = "num" THEN Num(t_raw.v - KELVIN_OFFSET) ELSE NA

\* t_raw.where(t_raw < 200, t_raw - 273.15): keep the cell where the
\* condition is True, else take the other operand. NaN < 200 is False and
\* NaN - 273.15 is NaN.
kelvin_where(t_raw) ==
    LET cond == t_raw.k = "num" /\ t_raw.v < KELVIN_THRESHOLD
        other == IF t_raw.k = "num" THEN Num(t_raw.v - KELVIN_OFFSET) ELSE NA
    IN  IF cond THEN t_raw ELSE other

----------------------------------------------------------------------------
(* Frames: [cols |-> set of column names, rows |-> sequence of records]   *)

\* pd.DataFrame(): no column, no row.
NoFrame == [cols |-> {}, rows |-> <<>>]

\* DataFrame.empty: one of the two axes has length 0.
Empty(f) == f.cols = {} \/ Len(f.rows) = 0

\* df.get(col): the column, or None when the frame has no such column.
Get(f, r, col) == IF col \in f.cols THEN r[col] ELSE NA

\* The columns normalize_synop_df assigns as Series; assigning the first of
\* them to the empty frame `out` gives it the index of df.
SeriesCols(f) == f.cols \cap RawCols

\* One row of `out` before sorting, computed from row r of df.
NormalizeRow(f, r) ==
    LET d == IF "date_utc" \in f.cols THEN to_datetime(r["date_utc"]) ELSE NA
    IN  [date_utc |-> d,
         date_local |-> tz_convert(d),
         station_id |-> Get(f, r, "station_id"),
         station_name |-> Get(f, r, "station_name"),
         temperature_C |-> IF "temperature_raw" \in f.cols
                           THEN kelvin_where(to_numeric(r["temperature_raw"]))
                           ELSE NA,
         pluie_brute |-> IF "rain_raw" \in f.cols
                         THEN to_numeric(r["rain_raw"]) ELSE NA,
         vent_brut |-> IF "wind_raw" \in f.cols
                       THEN to_numeric(r["wind_raw"]) ELSE NA]

\* The rows of `out` before sort_values, in the order of df. With no Series
\* column at all every assignment is a scalar and `out` keeps zero rows.
Unsorted(f) ==
    IF SeriesCols(f) = {} THEN <<>>
    ELSE [i \in 1..Len(f.rows) |-> NormalizeRow(f, f.rows[i])]

\* The indexers sort_values("date_local") may compute: the rows with a
\* date_local in ascending order of their instant, then the NaT rows in
\* their original order (na_position="last"). The default kind is
\* quicksort, which is not stable: rows of equal instant come in any order.
SortIndexers(rows) ==
    LET n == Len(rows)
        good == {i \in 1..n : ~IsNA(rows[i].date_local)}
        bad == {i \in 1..n : IsNA(rows[i].date_local)}
        m == Cardinality(good)
        \* the k-th NaT row in original order
        nth(k) == CHOOSE i \in bad : Cardinality({j \in bad : j < i}) = k - 1
    IN  {p \in [1..n -> 1..n] :
            /\ \A i \in 1..m : p[i] \in good
            /\ \A i, j \in 1..m : i # j => p[i] # p[j]
            /\ \A i \in 1..(m-1) :
                   rows[p[i]].date_local.t <= rows[p[i+1]].date_local.t
            /\ \A k \in 1..(n-m) : p[m+k] = nth(k)}

Permute(rows, p) == [i \in 1..Len(rows) |-> rows[p[i]]]

\* normalize_synop_df(df), given the indexer the sort picked: an empty frame
\* is returned as it is, otherwise the seven output columns, sorted.
normalize_synop_df(f, p) ==
    IF Empty(f) THEN f
    ELSE [cols |-> OutCols, rows |-> Permute(Unsorted(f), p)]

Identity(n) == [i \in 1..n |-> i]

\* The indexers possible for frame f (the identity when nothing is sorted).
Indexers(f) ==
    IF Empty(f) THEN {Identity(Len(f.rows))} ELSE SortIndexers(Unsorted(f))

\* The output of the normalizer presented again as raw input: each output
\* column under the raw name normalize_synop_df reads it from.
FeedBack(o) ==
    IF o.cols # OutCols THEN o
    ELSE [cols |-> RawCols,
          rows |-> [i \in 1..Len(o.rows) |->
                      [date_utc |-> o.rows[i].date_utc,
                       station_id |-> o.rows[i].station_id,
                       station_name |-> o.rows[i].station_name,
                       temperature_raw |-> o.rows[i].temperature_C,
                       rain_raw |-> o.rows[i].pluie_brute,
                       wind_raw |-> o.rows[i].vent_brut]]]


----------------------------------------------------------------------------
(* Strings of field names: sequences of characters, so that `sub in fname` *)
(* and str.lower() are computed and not assumed.                           *)

None == <<>>     \* Python None and "" alike: both are falsy

f_date == <<"d", "a", "t", "e">>
f_Date == <<"D", "a", "t", "e">>
f_numer_sta == <<"n", "u", "m", "e", "r", "_", "s", "t", "a">>
f_id_omm_station == <<"i", "d", "_", "o", "m", "m", "_", "s", "t", "a", "t", "i", "o", "n">>
f_Station_Name == <<"S", "t", "a", "t", "i", "o", "n", "_", "N", "a", "m", "e">>
f_humidite == <<"h", "u", "m", "i", "d", "i", "t", "e">>
f_t == <<"t">>
f_tc == <<"t", "c">>
f_temperature == <<"t", "e", "m", "p", "e", "r", "a", "t", "u", "r", "e">>
f_ff == <<"f", "f">>
f_rr1 == <<"r", "r", "1">>

s_date == <<"d", "a", "t", "e">>
s_time == <<"t", "i", "m", "e">>
s_datetime == <<"d", "a", "t", "e", "t", "i", "m", "e">>
s_omm == <<"o", "m", "m">>
s_station == <<"s", "t", "a", "t", "i", "o", "n">>
s_id == <<"i", "d">>
s_name == <<"n", "a", "m", "e">>
s_temp == <<"t", "e", "m", "p">>
s_temperat == <<"t", "e", "m", "p", "e", "r", "a", "t">>
s_rain == <<"r", "a", "i", "n">>
s_pluie == <<"p", "l", "u", "i", "e">>
s_precip == <<"p", "r", "e", "c", "i", "p">>
s_wind == <<"w", "i", "n", "d">>
s_vent == <<"v", "e", "n", "t">>
s_ff == <<"f", "f">>

\* str.lower() on the letters the field names use.
LowerChar(ch) ==
    CASE ch = "D" -> "d" [] ch = "S" -> "s" [] ch = "N" -> "n" [] OTHER -> ch

Lower(w) == [i \in 1..Len(w) |-> LowerChar(w[i])]

\* sub in fname
Contains(fname, sub) ==
    \E i \in 0..(Len(fname) - Len(sub)) :
        \A j \in 1..Len(sub) : fname[i + j] = sub[j]

\* a or b
Or(a, b) == IF a # None THEN a ELSE b

----------------------------------------------------------------------------
(* guess_columns *)

\* find_field: the name of the first field whose lowered name matches
\* all (must_all) or any of the substrings; None when there is none.
find_field(fields_df, candidates_substrings, must_all) ==
    LET hit(i) ==
            LET fname == Lower(fields_df[i])
            IN  IF must_all
                THEN \A sub \in candidates_substrings : Contains(fname, sub)
                ELSE \E sub \in candidates_substrings : Contains(fname, sub)
        hits == {i \in 1..Len(fields_df) : hit(i)}
    IN  IF hits = {} THEN None
        ELSE fields_df[CHOOSE i \in hits : \A j \in hits : i <= j]

NoCols == [date |-> None, station_id |-> None, station_name |-> None,
           temp |-> None, rain |-> None, wind |-> None]

guess_columns(fields_df) ==
    IF Len(fields_df) = 0 THEN NoCols
    ELSE
    LET date_col == find_field(fields_df, {s_date, s_time, s_datetime}, FALSE)
        station_id_col ==
            Or(find_field(fields_df, {s_omm, s_station, s_id}, TRUE),
            Or(find_field(fields_df, {s_omm, s_station}, FALSE),
            Or(find_field(fields_df, {s_station, s_id}, FALSE),
               find_field(fields_df, {s_omm}, FALSE))))
        station_name_col ==
            Or(find_field(fields_df, {s_station, s_name}, FALSE),
               find_field(fields_df, {s_station}, FALSE))
        temp_col == Or(find_field(fields_df, {s_temp}, FALSE),
                       find_field(fields_df, {s_temperat}, FALSE))
        rain_col == Or(find_field(fields_df, {s_rain}, FALSE),
                    Or(find_field(fields_df, {s_pluie}, FALSE),
                       find_field(fields_df, {s_precip}, FALSE)))
        wind_col == Or(find_field(fields_df, {s_wind}, FALSE),
                    Or(find_field(fields_df, {s_vent}, FALSE),
                       find_field(fields_df, {s_ff}, FALSE)))
        refine == Or(find_field(fields_df, {s_omm}, FALSE),
                     find_field(fields_df, {s_id}, FALSE))
    IN  [date |-> date_col,
         station_id |-> IF station_id_col = station_name_col /\ refine # None
                        THEN refine ELSE station_id_col,
         station_name |-> station_name_col,
         temp |-> temp_col,
         rain |-> rain_col,
         wind |-> wind_col]

----------------------------------------------------------------------------
(* fetch_data_for_station: the query it builds *)

STATIONS == {"07110", "07630", "07761"}

\* The sécurité minimale of fetch_data_for_station, slipped: only the date
\* column is tested.
colsDateOnly(cm) == cm.date # None

\* not (not cols_map.get("date") or not cols_map.get("station_id"))
ColsUsable(cm) == cm.date # None /\ cm.station_id # None

\* dt.strftime("%Y-%m-%dT%H:%M:%SZ"): the naive datetime, suffixed Z.
strftime_Z(dt) == Iso(dt, 0)

\* Plausible slip: the clause has no upper bound on the date.
whereNoUpperBound(id_col_api, station_id, date_col_api, start_iso, end_iso) ==
    <<[col |-> id_col_api, op |-> "=", val |-> Txt(station_id)],
      [col |-> date_col_api, op |-> ">=", val |-> start_iso]>>

\* where_clause: the conjunction `id` = 'station' AND `date` >= 'start'
\* AND `date` <= 'end', one record per conjunct.
where_clause(id_col_api, station_id, date_col_api, start_iso, end_iso) ==
    <<[col |-> id_col_api, op |-> "=", val |-> Txt(station_id)],
      [col |-> date_col_api, op |-> ">=", val |-> start_iso],
      [col |-> date_col_api, op |-> "<=", val |-> end_iso]>>

Optional(cm, key, alias) ==
    IF cm[key] # None THEN {[field |-> cm[key], as |-> alias]} ELSE {}

\* select_parts: `field` as alias, the two mandatory ones and each optional
\* one whose column was guessed.
select_parts(cm) ==
    {[field |-> cm.date, as |-> "date_utc"],
     [field |-> cm.station_id, as |-> "station_id"]}
    \cup Optional(cm, "station_name", "station_name")
    \cup Optional(cm, "temp", "temperature_raw")
    \cup Optional(cm, "rain", "rain_raw")
    \cup Optional(cm, "wind", "wind_raw")

\* params of the records request. The limit (10..100, a slider) is above
\* MaxRows and is not modelled: the service may return any number of rows
\* up to MaxRows.
request_params(cm, station_id, start, end) ==
    [where |-> where_clause(cm.station_id, station_id, cm.date,
                            strftime_Z(start), strftime_Z(end)),
     order_by |-> cm.date,
     select |-> select_parts(cm)]

NoParams == [where |-> <<>>, order_by |-> None, select |-> {}]

----------------------------------------------------------------------------
(* The remote service: the table of the dataset and the evaluation of the  *)
(* query parameters it is sent (Opendatasoft explore v2.1 /records).       *)

Instants == 0..MaxInstant

RemoteTable == [t : Instants, station : STATIONS]

RemoteValue(row, name) ==
    CASE name \in {f_date, f_Date} -> Iso(row.t, 0)
      [] name \in {f_numer_sta, f_id_omm_station} -> Txt(row.station)
      [] name \in {f_t, f_temperature} -> Num(28000)
      [] name = f_tc -> Num(685)
      [] name = f_ff -> Num(300)
      [] name = f_rr1 -> Num(50)
      [] OTHER -> NA

\* The UTC instant an ISO-8601 literal denotes.
InstantOf(c) == c.h - c.off

Holds(row, cond) ==
    LET v == RemoteValue(row, cond.col)
    IN  CASE cond.op = "=" -> v = cond.val
          [] cond.op = ">=" -> /\ v.k = "iso" /\ cond.val.k = "iso"
                               /\ InstantOf(v) >= InstantOf(cond.val)
          [] cond.op = "<=" -> /\ v.k = "iso" /\ cond.val.k = "iso"
                               /\ InstantOf(v) <= InstantOf(cond.val)

Matching(q) ==
    {row \in RemoteTable : \A i \in 1..Len(q.where) : Holds(row, q.where[i])}

SortKey(row, name) ==
    LET v == RemoteValue(row, name) IN IF v.k = "iso" THEN InstantOf(v) ELSE 0

\* The orders in which the rows D are returned: ascending by order_by.
Ordered(D, name) ==
    {s \in [1..Cardinality(D) -> D] :
        /\ \A i, j \in 1..Cardinality(D) : i # j => s[i] # s[j]
        /\ \A i \in 1..(Cardinality(D) - 1) :
               SortKey(s[i], name) <= SortKey(s[i+1], name)}

Selected(row, q, alias) ==
    LET hit == {x \in q.select : x.as = alias}
    IN  IF hit = {} THEN NA ELSE RemoteValue(row, (CHOOSE x \in hit : TRUE).field)

\* One element of "results": the selected fields under their aliases.
Result(row, q) == [c \in RawCols |-> Selected(row, q, c)]

\* The "results" arrays the service may answer q with: any rows of the table
\* that match the where clause, at most MaxRows of them, in order.
RemoteResults(q) ==
    UNION {{[i \in 1..Len(s) |-> Result(s[i], q)] : s \in Ordered(D, q.order_by)}
           : D \in {E \in SUBSET Matching(q) : Cardinality(E) <= MaxRows}}

\* pd.DataFrame(results): the keys of the rows as columns.
DataFrame(results, q) ==
    IF Len(results) = 0 THEN NoFrame
    ELSE [cols |-> {x.as : x \in q.select}, rows |-> results]

ErrorStatuses == {500}

\* Schemas the catalog endpoint may describe: none, the fields of the SYNOP
\* dataset, fields named as the script's notes expect, one without a date
\* field, and one where only "humidite" looks like an id.
Schemas ==
    {<<>>,
     <<f_numer_sta, f_date, f_t, f_ff, f_rr1>>,
     <<f_id_omm_station, f_Date, f_Station_Name, f_temperature, f_ff>>,
     <<f_numer_sta, f_tc>>,
     <<f_date, f_humidite, f_tc>>}

\* cols_map = guess_columns(schema_df), for each schema.
GuessedCols == [sdf \in Schemas |-> guess_columns(sdf)]

----------------------------------------------------------------------------
(* get_schema and its cache *)

TTL == 3600

NoCache == [valid |-> FALSE, df |-> <<>>, report |-> {}, expires |-> 0,
            status |-> 0]

Report(kind, status) == [kind |-> kind, status |-> status]

\* get_schema() on a response resp = [net, status, json, fields]: raises on
\* a transport failure (requests.get) and on a body that is no JSON
\* (r.json()); reports and returns an empty frame on a non-200 status;
\* else returns the fields.
get_schema(resp) ==
    IF resp.net THEN [raises |-> TRUE, df |-> <<>>, report |-> {}]
    ELSE IF resp.status # 200
    THEN [raises |-> FALSE, df |-> <<>>,
          report |-> {Report("schema_http", resp.status)}]
    ELSE IF ~resp.json THEN [raises |-> TRUE, df |-> <<>>, report |-> {}]
    ELSE [raises |-> FALSE, df |-> resp.fields, report |-> {}]

\* st.cache_data(ttl=3600): a returned value is stored with the st.error it
\* showed, whatever the value; an exception stores nothing.
Store(old, res, status) ==
    IF res.raises THEN old
    ELSE [valid |-> TRUE, df |-> res.df, report |-> res.report,
          expires |-> now + TTL, status |-> status]

CacheHit == cache.valid /\ now < cache.expires

----------------------------------------------------------------------------
(* fetch_data_for_station: the response *)

\* The part of fetch_data_for_station after requests.get, on a response
\* resp = [net, status, json, results]: requests.get raises on a transport
\* failure; a non-200 status and a body that r.json() rejects are reported
\* and give an empty frame.
fetch_result(resp, q) ==
    IF resp.net THEN [raises |-> TRUE, df |-> NoFrame, report |-> {}]
    ELSE IF resp.status # 200
    THEN [raises |-> FALSE, df |-> NoFrame,
          report |-> {Report("records_http", resp.status)}]
    ELSE IF ~resp.json
    THEN [raises |-> FALSE, df |-> NoFrame,
          report |-> {Report("records_json", 0)}]
    ELSE [raises |-> FALSE, df |-> DataFrame(resp.results, q), report |-> {}]

\* Plausible slip: the request is sent again after a non-200 status.
retryOnHttpError(kind) == IF kind = "http" THEN "records_call" ELSE "idle"

\* Where the script is after the response of kind `kind` was handled: the
\* function returns and the run goes to its end.
AfterResponse(kind) == "idle"

----------------------------------------------------------------------------
(* Spec: the interactive session. Each user interaction reruns the script  *)
(* from the top; the run is cut at its two network calls.                  *)

NormIdle ==
    /\ nphase = "input"
    /\ df = NoFrame
    /\ indexer = <<>>
    /\ out1 = NoFrame
    /\ out2 = NoFrame

DailyIdle ==
    /\ dphase = "input"
    /\ observations = <<>>
    /\ targetHour = 0
    /\ daily = <<>>
    /\ derror = "none"

SessionIdle ==
    /\ pc = "idle"
    /\ now = 0
    /\ cache = NoCache
    /\ run_query = FALSE
    /\ station = "07110"
    /\ start_dt = 0
    /\ end_dt = MaxInstant
    /\ schema_df = <<>>
    /\ fromCache = FALSE
    /\ cols_map = NoCols
    /\ reqCount = 0
    /\ params = NoParams
    /\ raw_df = NoFrame
    /\ synop_df = NoFrame
    /\ reports = {}
    /\ ending = "none"
    /\ recordsResp = "none"

\* The script from line 267 on, once get_schema returned sdf having shown
\* base: st.stop() on an empty schema; else guess_columns, and only when the
\* button was clicked fetch_data_for_station up to its requests.get.
AfterSchema(sdf, base) ==
    /\ schema_df' = sdf
    /\ raw_df' = NoFrame
    /\ synop_df' = NoFrame
    /\ IF Len(sdf) = 0
       THEN /\ cols_map' = NoCols
            /\ pc' = "idle"
            /\ ending' = "stop"
            /\ reports' = base
            /\ params' = NoParams
       ELSE LET cm == GuessedCols[sdf]
            IN  /\ cols_map' = cm
                /\ IF ~run_query'
                   THEN /\ pc' = "idle"
                        /\ ending' = "info"
                        /\ reports' = base
                        /\ params' = NoParams
                   ELSE IF ~ColsUsable(cm)
                   THEN /\ pc' = "idle"
                        /\ ending' = "warning"
                        /\ reports' = base \cup {Report("cols", 0)}
                        /\ params' = NoParams
                   ELSE /\ pc' = "records_call"
                        /\ ending' = "running"
                        /\ reports' = base
                        /\ params' = request_params(cm, station', start_dt',
                                                    end_dt')

\* The top of a run: get_schema() is answered by the cache or sends the
\* catalog request.
StartRun ==
    /\ reqCount' = 0
    /\ recordsResp' = "none"
    /\ IF CacheHit
       THEN /\ fromCache' = TRUE
            /\ AfterSchema(cache.df, cache.report)
       ELSE /\ fromCache' = FALSE
            /\ pc' = "schema_wait"
            /\ schema_df' = <<>>
            /\ cols_map' = NoCols
            /\ params' = NoParams
            /\ raw_df' = NoFrame
            /\ synop_df' = NoFrame
            /\ reports' = {}
            /\ ending' = "running"
    /\ UNCHANGED <<now, cache, nvars, dvars>>

\* The sidebar (lines 279-316) was rendered by the last run: the run went
\* past st.stop(), and an exception, if any, came from the fetch.
WidgetsShown ==
    \/ ending \in {"info", "warning", "shown"}
    \/ ending = "exception" /\ reqCount > 0

\* The page is loaded or rerun as it is. Widgets the last run did not render
\* have lost their state and take their default values.
Rerun ==
    /\ pc = "idle"
    /\ IF WidgetsShown
       THEN UNCHANGED <<station, start_dt, end_dt>>
       ELSE /\ station' = "07110"
            /\ start_dt' = 0
            /\ end_dt' = MaxInstant
    /\ run_query' = FALSE
    /\ StartRun

\* The user changes the station or the period: a rerun, button not clicked.
ChangeWidgets ==
    /\ pc = "idle"
    /\ WidgetsShown
    /\ \E st \in STATIONS, sd \in Instants, ed \in Instants :
          /\ station' = st
          /\ start_dt' = sd
          /\ end_dt' = ed
    /\ run_query' = FALSE
    /\ StartRun

\* The user clicks "Charger les données": a rerun with run_query True.
ClickLoad ==
    /\ pc = "idle"
    /\ WidgetsShown
    /\ run_query' = TRUE
    /\ UNCHANGED <<station, start_dt, end_dt>>
    /\ StartRun

\* An exception leaves the script: the run is over, the session goes on.
Raise ==
    /\ pc' = "idle"
    /\ ending' = "exception"

SchemaResponse(resp) ==
    /\ UNCHANGED <<now, run_query, station, start_dt, end_dt, fromCache,
                   reqCount, recordsResp, nvars, dvars>>
    /\ LET res == get_schema(resp)
       IN  /\ cache' = Store(cache, res, resp.status)
           /\ IF res.raises
              THEN /\ Raise
                   /\ UNCHANGED <<schema_df, cols_map, params, raw_df,
                                  synop_df, reports>>
              ELSE AfterSchema(res.df, res.report)

SchemaNetworkFailure ==
    /\ pc = "schema_wait"
    /\ SchemaResponse([net |-> TRUE, status |-> 0, json |-> FALSE,
                       fields |-> <<>>])

SchemaHttpError ==
    /\ pc = "schema_wait"
    /\ \E code \in ErrorStatuses :
          SchemaResponse([net |-> FALSE, status |-> code, json |-> FALSE,
                          fields |-> <<>>])

SchemaBadBody ==
    /\ pc = "schema_wait"
    /\ SchemaResponse([net |-> FALSE, status |-> 200, json |-> FALSE,
                       fields |-> <<>>])

SchemaOk ==
    /\ pc = "schema_wait"
    /\ \E fields \in Schemas :
          SchemaResponse([net |-> FALSE, status |-> 200, json |-> TRUE,
                          fields |-> fields])

\* r = requests.get(BASE_RECORDS_URL, params=params, timeout=30)
RecordsCall ==
    /\ pc = "records_call"
    /\ reqCount' = reqCount + 1
    /\ pc' = "records_wait"
    /\ UNCHANGED <<now, cache, run_query, station, start_dt, end_dt,
                   schema_df, fromCache, cols_map, params, raw_df, synop_df,
                   reports, ending, recordsResp, nvars,
                   dvars>>

\* The rest of the run once the records request is answered: the frame is
\* normalized and shown, or the warning is shown when it is empty.
RecordsResponse(kind, resp) ==
    /\ recordsResp' = kind
    /\ LET res == fetch_result(resp, params)
       IN  IF res.raises
           THEN /\ Raise
                /\ UNCHANGED <<raw_df, synop_df, reports>>
           ELSE /\ raw_df' = res.df
                /\ reports' = reports \cup res.report
                /\ \E p \in Indexers(res.df) :
                      synop_df' = normalize_synop_df(res.df, p)
                /\ pc' = AfterResponse(kind)
                /\ ending' = IF pc' # "idle" THEN "running"
                             ELSE IF Empty(synop_df') THEN "warning"
                             ELSE "shown"
    /\ UNCHANGED <<now, cache, run_query, station, start_dt, end_dt,
                   schema_df, fromCache, cols_map, reqCount, params, nvars,
                   dvars>>

RecordsNetworkFailure ==
    /\ pc = "records_wait"
    /\ RecordsResponse("net", [net |-> TRUE, status |-> 0, json |-> FALSE,
                               results |-> <<>>])

RecordsHttpError ==
    /\ pc = "records_wait"
    /\ \E code \in ErrorStatuses :
          RecordsResponse("http", [net |-> FALSE, status |-> code,
                                   json |-> FALSE, results |-> <<>>])

RecordsBadBody ==
    /\ pc = "records_wait"
    /\ RecordsResponse("body", [net |-> FALSE, status |-> 200,
                                json |-> FALSE, results |-> <<>>])

RecordsOk ==
    /\ pc = "records_wait"
    /\ \E results \in RemoteResults(params) :
          RecordsResponse("ok", [net |-> FALSE, status |-> 200,
                                 json |-> TRUE, results |-> results])

\* Time passes.
Tick ==
    /\ now + TickSeconds <= MaxTicks * TickSeconds
    /\ now' = now + TickSeconds
    /\ UNCHANGED <<pc, cache, run_query, station, start_dt, end_dt,
                   schema_df, fromCache, cols_map, reqCount, params, raw_df,
                   synop_df, reports, ending, recordsResp, nvars,
                   dvars>>

Init == SessionIdle /\ NormIdle /\ DailyIdle

Next ==
    \/ Rerun
    \/ ChangeWidgets
    \/ ClickLoad
    \/ SchemaNetworkFailure
    \/ SchemaHttpError
    \/ SchemaBadBody
    \/ SchemaOk
    \/ RecordsCall
    \/ RecordsNetworkFailure
    \/ RecordsHttpError
    \/ RecordsBadBody
    \/ RecordsOk
    \/ Tick

Spec == Init /\ [][Next]_vars

----------------------------------------------------------------------------
(* SpecNorm: the normalizer on bounded raw frames *)

DateCells == {Iso(1, 0), Iso(3, 2), Iso(2, 0), Bad}
TempCells == {Num(1500), Num(20000), Num(28000), Num(48000),
              NumStr(28000), Bad, NA}

\* The column sets of the raw frames: everything fetch selects, a frame
\* without the optional measures, one without date_utc, one without
\* temperature_raw, and one with none of the columns the normalizer reads.
ColChoices == {RawCols,
               {"date_utc", "station_id"},
               RawCols \ {"date_utc"},
               RawCols \ {"temperature_raw"},
               {"other"}}

CellsOf(cols, col, cells) == IF col \in cols THEN cells ELSE {NA}

RawRows(cols) ==
    [date_utc : CellsOf(cols, "date_utc", DateCells),
     station_id : CellsOf(cols, "station_id", {Txt("07110")}),
     station_name : CellsOf(cols, "station_name", {Txt("BREST")}),
     temperature_raw : CellsOf(cols, "temperature_raw", TempCells),
     rain_raw : CellsOf(cols, "rain_raw", {Num(50)}),
     wind_raw : CellsOf(cols, "wind_raw", {Bad})]

NormInit ==
    /\ SessionIdle
    /\ DailyIdle
    /\ nphase = "input"
    /\ \E c \in ColChoices, n \in 0..MaxRows :
          \E rs \in [1..n -> RawRows(c)] : df = [cols |-> c, rows |-> rs]
    /\ indexer = <<>>
    /\ out1 = NoFrame
    /\ out2 = NoFrame

\* synop_df = normalize_synop_df(raw_df)
Normalize ==
    /\ nphase = "input"
    /\ \E p \in Indexers(df) :
          /\ indexer' = p
          /\ out1' = normalize_synop_df(df, p)
    /\ nphase' = "normalized"
    /\ UNCHANGED <<df, out2, svars, dvars>>

\* normalize_synop_df applied to its own output
Renormalize ==
    /\ nphase = "normalized"
    /\ \E p \in Indexers(FeedBack(out1)) :
          out2' = normalize_synop_df(FeedBack(out1), p)
    /\ nphase' = "renormalized"
    /\ UNCHANGED <<df, indexer, out1, svars, dvars>>

NormNext == Normalize \/ Renormalize

SpecNorm == NormInit /\ [][NormNext]_vars

----------------------------------------------------------------------------
(* The daily reducer of the specification document (section 4.3). An       *)
(* Observation is [timestamp_utc, timestamp_local], the local timestamp    *)
(* being the projection tz_convert computes.                               *)

Observation(t) == [timestamp_utc |-> t, timestamp_local |-> tz_convert(Ts(t))]

\* Wall-clock hours since the epoch of a local timestamp.
WallHours(l) == l.t + l.off

calendar_day(o) == WallHours(o.timestamp_local) \div 24

local_hour(o) == WallHours(o.timestamp_local) % 24

Abs(x) == IF x < 0 THEN -x ELSE x

hour_distance(o, target) == Abs(local_hour(o) - target)

\* Slip: among members tied on the distance the latest one wins.
latestWins(a, b, target) ==
    \/ hour_distance(a, target) < hour_distance(b, target)
    \/ /\ hour_distance(a, target) = hour_distance(b, target)
       /\ a.timestamp_utc > b.timestamp_utc

\* Step 3: a is selected rather than b: a smaller distance, or the same
\* distance and an earlier timestamp_utc.
Preferred(a, b, target) ==
    \/ hour_distance(a, target) < hour_distance(b, target)
    \/ /\ hour_distance(a, target) = hour_distance(b, target)
       /\ a.timestamp_utc < b.timestamp_utc

\* Steps 1 to 3 for one day: scan the observations from index i on, keeping
\* the preferred member of the day's group seen so far (none: <<>>).
RECURSIVE SelectForDay(_, _, _, _, _)
SelectForDay(obs, day, target, i, best) ==
    IF i > Len(obs) THEN best
    ELSE IF calendar_day(obs[i]) # day
    THEN SelectForDay(obs, day, target, i + 1, best)
    ELSE IF best = <<>> \/ Preferred(obs[i], best[1], target)
    THEN SelectForDay(obs, day, target, i + 1, <<obs[i]>>)
    ELSE SelectForDay(obs, day, target, i + 1, best)

DailyObservation(o, target) ==
    [calendar_day |-> calendar_day(o),
     chosen_observation |-> o,
     hour_distance |-> hour_distance(o, target)]

\* Step 4: one DailyObservation per group, days ascending from day on.
RECURSIVE EmitFrom(_, _, _, _)
EmitFrom(obs, target, day, last) ==
    IF day > last THEN <<>>
    ELSE LET best == SelectForDay(obs, day, target, 1, <<>>)
         IN  (IF best = <<>> THEN <<>>
              ELSE <<DailyObservation(best[1], target)>>)
             \o EmitFrom(obs, target, day + 1, last)

DaysOf(obs) == {calendar_day(obs[i]) : i \in 1..Len(obs)}

FirstDay(obs) == CHOOSE d \in DaysOf(obs) : \A e \in DaysOf(obs) : d <= e

LastDay(obs) == CHOOSE d \in DaysOf(obs) : \A e \in DaysOf(obs) : e <= d

\* reduceToDaily(observations, targetHour): InvalidArgument for a target
\* hour outside 0..23, else the daily observations.
reduceToDaily(obs, target) ==
    IF target \notin 0..23
    THEN [error |-> "InvalidArgument", value |-> <<>>]
    ELSE [error |-> "none",
          value |-> IF Len(obs) = 0 THEN <<>>
                    ELSE EmitFrom(obs, target, FirstDay(obs), LastDay(obs))]

----------------------------------------------------------------------------
(* SpecDaily: the reducer on bounded sequences of observations *)

\* Instants of the observations: one every four hours.
DailyInstants == {t \in 0..MaxDailyInstant : t % 4 = 0}

TargetHours == 0..24

DailyInit ==
    /\ SessionIdle
    /\ NormIdle
    /\ dphase = "input"
    /\ \E n \in 0..MaxObs :
          \E ts \in [1..n -> DailyInstants] :
              /\ \A i, j \in 1..n : i # j => ts[i] # ts[j]
              /\ observations = [i \in 1..n |-> Observation(ts[i])]
    /\ targetHour \in TargetHours
    /\ daily = <<>>
    /\ derror = "none"

Reduce ==
    /\ dphase = "input"
    /\ LET r == reduceToDaily(observations, targetHour)
       IN  /\ daily' = r.value
           /\ derror' = r.error
    /\ dphase' = "reduced"
    /\ UNCHANGED <<observations, targetHour, svars, nvars>>

DailyNext == Reduce

SpecDaily == DailyInit /\ [][DailyNext]_vars

----------------------------------------------------------------------------
(* Claims about the session, checked under Spec *)

FieldsOf(sdf) == {sdf[i] : i \in 1..Len(sdf)}

Reported(kinds) == \E r \in reports : r.kind \in kinds

\* C4 (as stated): after a failed query the session stays usable: no later
\* run is stopped, before it sends anything and before it shows the load
\* button, by the stored result of an earlier failed schema request.
C4_SessionUsableAfterFailure ==
    ~(/\ pc = "idle"
      /\ ending = "stop"
      /\ fromCache
      /\ cache.status # 200)

\* C5 (as stated): each failure of the records request (transport, non-200
\* status, unparseable body) ends as a reported fetch error with no rows,
\* never as an exception that leaves the script.
C5_FetchFailuresReported ==
    (pc = "idle" /\ recordsResp \in {"net", "http", "body"}) =>
        /\ ending # "exception"
        /\ Reported({"records_net", "records_http", "records_json"})
        /\ Empty(raw_df)

\* C6: for a range with start <= end, every row fetch returns has a
\* timestamp inside [start, end], and the rows are ascending by timestamp.
C6_RowsWithinRange ==
    (pc = "idle" /\ recordsResp = "ok" /\ start_dt <= end_dt) =>
        /\ \A i \in 1..Len(raw_df.rows) :
              /\ raw_df.rows[i].date_utc.k = "iso"
              /\ start_dt <= InstantOf(raw_df.rows[i].date_utc)
              /\ InstantOf(raw_df.rows[i].date_utc) <= end_dt
        /\ \A i \in 1..(Len(raw_df.rows) - 1) :
              InstantOf(raw_df.rows[i].date_utc)
                  <= InstantOf(raw_df.rows[i+1].date_utc)

\* C6 witness: two rows came back for a range that leaves out a part of the
\* table.
C6_Witness ==
    /\ pc = "idle"
    /\ recordsResp = "ok"
    /\ start_dt < end_dt
    /\ end_dt < MaxInstant
    /\ Len(raw_df.rows) = 2

\* C7 (as stated): a range whose start is later than its end is rejected
\* before any request: this run sends nothing to the records endpoint.
C7_InvertedRangeRejected ==
    (run_query /\ start_dt > end_dt) =>
        (reqCount = 0 /\ pc \notin {"records_call", "records_wait"})

\* C8: one run sends at most one request to the records endpoint, whatever
\* answers it.
C8_AtMostOneRequest == reqCount <= 1

\* C8 witness: the one request of a run ended in a non-200 status and the
\* run is over.
C8_Witness ==
    /\ pc = "idle"
    /\ recordsResp = "http"
    /\ reqCount = 1
    /\ Reported({"records_http"})

\* C10: a records request exists only when the schema is non-empty and the
\* mapping names a date field and a station-id field of it; a run stopped
\* on an empty schema sent nothing; a run that reported the missing columns
\* sent nothing and has an empty table; and a clicked run without one of
\* the two columns reports it.
C10_RequestNeedsSchemaAndColumns ==
    /\ (pc \in {"records_call", "records_wait"} \/ reqCount > 0) =>
          /\ Len(schema_df) > 0
          /\ cols_map.date \in FieldsOf(schema_df)
          /\ cols_map.station_id \in FieldsOf(schema_df)
    /\ ending = "stop" => (Len(schema_df) = 0 /\ reqCount = 0)
    /\ Reported({"cols"}) => (reqCount = 0 /\ Empty(raw_df) /\ pc = "idle")
    /\ (/\ pc = "idle" /\ run_query /\ Len(schema_df) > 0
        /\ (cols_map.date = None \/ cols_map.station_id = None)) =>
          Reported({"cols"})

\* C10 witness: a records request is in flight.
C10_Witness ==
    /\ pc = "records_wait"
    /\ reqCount = 1
    /\ cols_map.date # None

----------------------------------------------------------------------------
(* Claims about the normalizer, checked under SpecNorm *)

\* A raw timestamp cell that denotes a UTC instant.
Parseable(c) == c.k \in {"iso", "ts"}

\* Numeric value of a raw cell, or NA when it has none.
NumericValue(c) == IF c.k \in {"num", "numstr"} THEN Num(c.v) ELSE NA

Normalized == nphase # "input" /\ ~Empty(df)

\* C1 (as stated): the normalizer's output holds exactly the raw rows with
\* a parseable timestamp, and no output row has a missing date_utc.
C1_UnparseableRowsDropped ==
    Normalized =>
        /\ \A i \in 1..Len(out1.rows) : ~IsNA(out1.rows[i].date_utc)
        /\ Len(out1.rows) =
             Cardinality({i \in 1..Len(df.rows) :
                            /\ "date_utc" \in df.cols
                            /\ Parseable(df.rows[i].date_utc)})

\* C2: every output row exposes t - 273.15 for a numeric raw temperature
\* t >= 200, t itself for t < 200, and the missing-value marker for a
\* missing or non-numeric raw temperature (or when the column is absent).
C2_KelvinHeuristic ==
    (Normalized /\ out1.cols = OutCols) =>
        \A i \in 1..Len(out1.rows) :
            LET raw == IF "temperature_raw" \in df.cols
                       THEN NumericValue(df.rows[indexer[i]].temperature_raw)
                       ELSE NA
                got == out1.rows[i].temperature_C
            IN  IF IsNA(raw) THEN IsNA(got)
                ELSE IF raw.v >= 20000 THEN got = Num(raw.v - 27315)
                ELSE got = raw

\* C2 witness: 280.0 was exposed as 6.85 and 15.0 as 15.0 in one output.
C2_Witness ==
    /\ nphase = "normalized"
    /\ Len(out1.rows) = 2
    /\ \E i, j \in 1..2 :
          /\ df.rows[indexer[i]].temperature_raw = Num(28000)
          /\ out1.rows[i].temperature_C = Num(685)
          /\ df.rows[indexer[j]].temperature_raw = Num(1500)
          /\ out1.rows[j].temperature_C = Num(1500)

\* C3 (as stated): normalizing the normalizer's output again yields the
\* same sequence of observations and the same set of columns.
C3_Idempotent == nphase = "renormalized" => out2 = out1

\* Number of rows of sequence rs equal to r.
Count(rs, r) == Cardinality({i \in 1..Len(rs) : rs[i] = r})

\* Same observations, in the same order up to rows of one timestamp.
SameUpToTies(a, b) ==
    /\ Len(a) = Len(b)
    /\ \A i \in 1..Len(a) : a[i].date_utc = b[i].date_utc
    /\ \A i \in 1..Len(a) : Count(a, a[i]) = Count(b, a[i])

\* Every numeric raw temperature of df is below 473.15.
BelowSecondThreshold ==
    \A i \in 1..Len(df.rows) :
        LET raw == NumericValue(df.rows[i].temperature_raw)
        IN  IsNA(raw) \/ raw.v < 20000 + 27315

\* C3 (amended): when every numeric raw temperature is below 473.15, the
\* second normalization yields the same observations with the same values,
\* in the same order up to the order of rows that share a timestamp, and
\* the same set of columns whenever the first output has a row.
C3_IdempotentBelowLimit ==
    (nphase = "renormalized" /\ BelowSecondThreshold) =>
        /\ SameUpToTies(out1.rows, out2.rows)
        /\ Len(out1.rows) > 0 => out2.cols = out1.cols

\* C3 witness: a converted Kelvin reading went through both passes.
C3_Witness ==
    /\ nphase = "renormalized"
    /\ BelowSecondThreshold
    /\ Len(out1.rows) = 2
    /\ \E i \in 1..2 : /\ df.rows[i].temperature_raw = Num(28000)
                       /\ Parseable(df.rows[i].date_utc)
    /\ \E i \in 1..2 : out1.rows[i].temperature_C = Num(685)
    /\ out2 = out1

----------------------------------------------------------------------------
(* Claims about the daily reducer, checked under SpecDaily *)

ObsOfDay(d) ==
    {observations[i] : i \in {j \in 1..Len(observations) :
                                 calendar_day(observations[j]) = d}}

DaysWithObs == {calendar_day(observations[i]) : i \in 1..Len(observations)}

\* C9: for a target hour in 0..23 reduceToDaily emits exactly one
\* DailyObservation per local calendar day that has an observation and none
\* for another day; the chosen observation is of that day, no observation
\* of the day is nearer to the target hour, and none at the same distance
\* is earlier.
C9_NearestThenEarliest ==
    (dphase = "reduced" /\ targetHour \in 0..23) =>
        /\ derror = "none"
        /\ {daily[i].calendar_day : i \in 1..Len(daily)} = DaysWithObs
        /\ Len(daily) = Cardinality(DaysWithObs)
        /\ \A i \in 1..Len(daily) :
              LET c == daily[i].chosen_observation
                  group == ObsOfDay(daily[i].calendar_day)
                  dist(o) == Abs(((o.timestamp_local.t + o.timestamp_local.off)
                                  % 24) - targetHour)
              IN  /\ c \in group
                  /\ \A o \in group : dist(c) <= dist(o)
                  /\ \A o \in group :
                        dist(o) = dist(c) => c.timestamp_utc <= o.timestamp_utc

\* C9 witness: local hours 10 and 14 of one day, target hour 12, the later
\* one given first: the earlier one was chosen.
C9_Witness ==
    /\ dphase = "reduced"
    /\ targetHour = 12
    /\ Len(observations) = 2
    /\ local_hour(observations[1]) = 14
    /\ local_hour(observations[2]) = 10
    /\ Len(daily) = 1
    /\ daily[1].chosen_observation = observations[2]
    /\ daily[1].hour_distance = 2

====
